---- MODULE Spec2Model ----
(***************************************************************************)
(* Model of winds/downsize_images.py: the size computation of resize_image *)
(* in IEEE-754 binary64 arithmetic, and the run of main over a directory   *)
(* tree (backup copy, enumeration, one resize per matched file).           *)
(***************************************************************************)
EXTENDS Integers, Sequences, FiniteSets, TLC

VARIABLES
    in_place,       \* args.in_place
    args_max_dim,    \* args.max_dim
    path_kind,      \* what main finds at path: a directory it can list or not, ...
    suffix,         \* entry under path -> its suffix (Path.suffix)
    parent,         \* entry -> the directory entry it lies in, 0 for path itself
    dir_kind,       \* directory entry -> real, a symbolic link, or not listable
    link,           \* entry -> the first entry that is a name of the same file
    sym,            \* entry -> g when it is a symbolic link to g's place in new_dir
    file_kind,      \* entry -> a regular file, or something whose read blocks
    orig,           \* entry -> what its name led to when main starts (history)
    tree,           \* entry -> what its name leads to now
    new_dir_exists, \* whether path.parent / '<name>_original' exists
    created,        \* whether this run made new_dir
    backup,         \* entry (those present in new_dir) -> content in new_dir
    copy_next,      \* copytree: the next entry to copy
    copy_errors,    \* copytree: entries whose copy failed
    copied,         \* copytree has returned
    image_files,    \* resize_images: the collected list
    idx,            \* resize_images: position of the loop in image_files
    image,          \* resize_image: the opened image and its exif
    calls,          \* the entries resize_image was called on, in order (history)
    pc,             \* the statement main is at
    error,          \* the exception that ended the run, or "none"
    sc_in,          \* size computation alone: <<width, height, new_max_dim>>
    sc_out          \* size computation alone: the successive results

\* the arguments and the layout of the tree, which the run never changes
given == <<in_place, args_max_dim, path_kind, suffix, parent, dir_kind, link, sym,
           file_kind, orig>>

prog_vars == <<given, tree, new_dir_exists, created, backup, copy_next, copy_errors,
               copied, image_files, idx, image, calls, pc, error>>

sc_vars == <<sc_in, sc_out>>

vars == <<prog_vars, sc_vars>>

(***************************************************************************)
(* Python float arithmetic (IEEE-754 binary64, round to nearest, ties to   *)
(* even).  A float is [sign, mant, exp]: sign in {-1,0,1}; mant the        *)
(* MantBits-bit significand N as NLimbs + 1 digits, most significant       *)
(* first, the first digit being the leading bit 1 and the others limbs of  *)
(* LimbBits bits; the value is sign * N * 2^exp.  Zero is sign = 0.  The   *)
(* limbs keep every intermediate value within TLC's 32-bit integers for    *)
(* operands below 2^16.                                                    *)
(***************************************************************************)

\* width of the significand of a Python float (binary64)
MantBits == 53

NLimbs == 2 + 2

LimbBits == (MantBits - 1) \div NLimbs

Max(a, b) == IF a >= b THEN a ELSE b

Abs(a) == IF a < 0 THEN -a ELSE a

Sign(a) == IF a < 0 THEN -1 ELSE IF a = 0 THEN 0 ELSE 1

Front(s) == SubSeq(s, 1, Len(s) - 1)

RECURSIVE Pow2(_)
Pow2(n) == IF n = 0 THEN 1 ELSE 2 * Pow2(n - 1)

Base == Pow2(LimbBits)

\* d * 2^t for a digit 0 <= d < Base, truncated when t < 0
Shift(d, t) ==
    IF d = 0 \/ -t >= LimbBits THEN 0
    ELSE IF t >= 0 THEN d * Pow2(t) ELSE d \div Pow2(-t)

FloatZero == [sign |-> 0, mant |-> <<1, 0, 0, 0, 0>>, exp |-> 0]

RECURSIVE AddOne(_)
\* the digits of N + 1; the leading digit takes the carry
AddOne(ds) ==
    IF Len(ds) = 1 THEN <<ds[1] + 1>>
    ELSE IF ds[Len(ds)] + 1 < Base
         THEN Front(ds) \o <<ds[Len(ds)] + 1>>
         ELSE AddOne(Front(ds)) \o <<0>>

RECURSIVE BitLen(_)
\* the number of binary digits of n >= 0
BitLen(n) == IF n = 0 THEN 0 ELSE 1 + BitLen(n \div 2)

Min(a, b) == IF a <= b THEN a ELSE b

\* the digits of N \div 2^k, for 0 <= k <= LimbBits
ShiftBy(ds, k) ==
    [i \in 1..Len(ds) |->
        ds[i] \div Pow2(k)
          + (IF i > 1 THEN (ds[i - 1] % Pow2(k)) * Pow2(LimbBits - k) ELSE 0)]

\* the digits of N \div 2
Half(ds) == ShiftBy(ds, 1)

\* Shift N right until its leading digit is 1 (at most 2 * LimbBits places),
\* keeping the last bit shifted out (guard) and whether any bit below it
\* was set (sticky).
ShiftRight(ds) ==
    LET k    == BitLen(ds[1]) - 1
        k1   == Min(k, LimbBits)
        k2   == k - k1
        s1   == ShiftBy(ds, k1)
        s2   == ShiftBy(s1, k2)
        low  == (s1[Len(ds)] % Pow2(k2)) * Pow2(k1) + (ds[Len(ds)] % Pow2(k1))
    IN  [ds     |-> s2,
         shift  |-> k,
         guard  |-> IF k = 0 THEN 0 ELSE (low \div Pow2(k - 1)) % 2,
         sticky |-> k > 1 /\ low % Pow2(k - 1) # 0]

\* Round N * 2^exp, of which guard and sticky describe the part below the
\* last bit of N, to nearest, ties to even.
RoundNearestEven(sign, ds, guard, sticky, exp) ==
    LET up == guard = 1 /\ (sticky \/ ds[Len(ds)] % 2 = 1)
        inc == AddOne(ds)
    IN  IF ~up THEN [sign |-> sign, mant |-> ds, exp |-> exp]
        ELSE IF inc[1] < 2 THEN [sign |-> sign, mant |-> inc, exp |-> exp]
        ELSE [sign |-> sign, mant |-> Half(inc), exp |-> exp + 1]

RECURSIVE NormNum(_, _, _)
\* double a until a >= b
NormNum(a, b, e) == IF a >= b THEN <<a, e>> ELSE NormNum(2 * a, b, e - 1)

RECURSIVE NormDen(_, _, _)
\* double b until a < 2b
NormDen(a, b, e) == IF a < 2 * b THEN <<b, e>> ELSE NormDen(a, 2 * b, e + 1)

RECURSIVE DivLimbs(_, _, _)
\* the first n limbs of r/b after the point (r < b), and the remainder
DivLimbs(r, b, n) ==
    IF n = 0 THEN [ds |-> <<>>, rem |-> r]
    ELSE LET rest == DivLimbs((r * Base) % b, b, n - 1)
         IN  [ds |-> <<(r * Base) \div b>> \o rest.ds, rem |-> rest.rem]

\* a / b for integers a and b > 0: Python's true division, correctly rounded
TrueDiv(a, b) ==
    IF a = 0 THEN FloatZero
    ELSE LET na == NormNum(Abs(a), b, 0)
             nd == NormDen(na[1], b, na[2])
             \* na[1] / nd[1] is in [1, 2)
             q  == DivLimbs(na[1] - nd[1], nd[1], NLimbs)
             guard == IF 2 * q.rem >= nd[1] THEN 1 ELSE 0
             sticky == 2 * q.rem - guard * nd[1] # 0
         IN  RoundNearestEven(Sign(a), <<1>> \o q.ds, guard, sticky,
                              nd[2] - (MantBits - 1))

RECURSIVE MulLimbs(_, _, _)
\* the digits of N * n + carry, the leading digit unbounded
MulLimbs(ds, n, carry) ==
    IF Len(ds) = 1 THEN <<n * ds[1] + carry>>
    ELSE LET t == n * ds[Len(ds)] + carry
         IN  MulLimbs(Front(ds), n, t \div Base) \o <<t % Base>>

\* n * f for an integer n > 0 and a float f: the exact product, rounded once
IntTimesFloat(n, f) ==
    IF f.sign = 0 THEN f
    ELSE LET p == ShiftRight(MulLimbs(f.mant, n, 0))
         IN  RoundNearestEven(f.sign, p.ds, p.guard, p.sticky, f.exp + p.shift)

RECURSIVE TruncDigits(_, _)
\* N * 2^e truncated to an integer, N given by its digits
TruncDigits(ds, e) ==
    IF ds = <<>> THEN 0
    ELSE Shift(ds[Len(ds)], e) + TruncDigits(Front(ds), e + LimbBits)

\* int(f): truncation toward zero
FloatToInt(f) == IF f.sign = 0 THEN 0 ELSE f.sign * TruncDigits(f.mant, f.exp)

\* NewSize with the height computed from the width
NewSizeSquare(width, height, new_max_dim) ==
    LET max_dim == Max(width, height)
        scale   == TrueDiv(new_max_dim, max_dim)
    IN  <<FloatToInt(IntTimesFloat(width, scale)),
          FloatToInt(IntTimesFloat(width, scale))>>

\* NewSize with the scale taken from the smaller dimension
NewSizeMin(width, height, new_max_dim) ==
    LET min_dim == Min(width, height)
        scale   == TrueDiv(new_max_dim, min_dim)
    IN  <<FloatToInt(IntTimesFloat(width, scale)),
          FloatToInt(IntTimesFloat(height, scale))>>

\* resize_image, lines 21-27: the size handed to image.resize
NewSize(width, height, new_max_dim) ==
    LET max_dim == Max(width, height)
        scale   == TrueDiv(new_max_dim, max_dim)
    IN  <<FloatToInt(IntTimesFloat(width, scale)),
          FloatToInt(IntTimesFloat(height, scale))>>

(***************************************************************************)
(* The size computation alone: inputs drawn from bounded sets, NewSize     *)
(* applied to them and then to its own result.                             *)
(***************************************************************************)

\* largest width and height drawn
MaxDim == 12

\* largest new_max_dim drawn
MaxNewMaxDim == 16

\* how many times the computation is applied in a row
MaxApply == 2

\* image.resize of Pillow refuses a size with a dimension below 1
ValidSize(size) == size[1] >= 1 /\ size[2] >= 1

ScalerFirst ==
    /\ sc_out = <<>>
    /\ sc_out' = <<NewSize(sc_in[1], sc_in[2], sc_in[3])>>
    /\ UNCHANGED <<sc_in, prog_vars>>

\* the resized image is resized again with the same new_max_dim
ScalerAgain ==
    /\ sc_out # <<>>
    /\ Len(sc_out) < MaxApply
    /\ ValidSize(sc_out[Len(sc_out)])
    /\ sc_out' = Append(sc_out, NewSize(sc_out[Len(sc_out)][1],
                                        sc_out[Len(sc_out)][2], sc_in[3]))
    /\ UNCHANGED <<sc_in, prog_vars>>

(***************************************************************************)
(* The run of main.                                                        *)
(***************************************************************************)

\* number of entries under path
NFiles == 2

Files == 1..NFiles

\* resize_images, line 45
exts == {".png", ".jpg", ".jpeg"}

\* the suffixes drawn for the entries: one of exts, one that is none of them,
\* one that is one of them but for its case
Suffixes == {".jpg", ".gif", ".JPG"}

\* default of --max-dim, line 77
DefaultMaxDim == 400

MaxDimArgs == {DefaultMaxDim}

Sizes == {<<800, 600>>, <<1000, 1>>}

\* content of a file that is not an image (or a truncated one)
Unreadable(saves) ==
    [missing |-> FALSE, isdir |-> FALSE, decodable |-> FALSE, exif |-> FALSE,
     size |-> <<0, 0>>, saves |-> saves]

\* an entry that is a directory (rglob lists directories too)
Directory ==
    [missing |-> FALSE, isdir |-> TRUE, decodable |-> FALSE, exif |-> FALSE,
     size |-> <<0, 0>>, saves |-> 0]

\* what the name of a symbolic link without target leads to: nothing
Missing ==
    [missing |-> TRUE, isdir |-> FALSE, decodable |-> FALSE, exif |-> FALSE,
     size |-> <<0, 0>>, saves |-> 0]

\* what a write that did not complete leaves of a file with content c
Truncated(c) == Unreadable(c.saves + 1)

\* `saves` counts the writes to the file: 0 is the bytes main found
Contents ==
    {Unreadable(0), Directory, Missing} \cup
    [missing : {FALSE}, isdir : {FALSE}, decodable : {TRUE}, exif : {FALSE},
     size : {<<800, 600>>}, saves : {0}] \cup
    [missing : {FALSE}, isdir : {FALSE}, decodable : {TRUE}, exif : {TRUE},
     size : Sizes, saves : {0}]

\* path is a directory main may list, one it may not list, absent, or a file
PathKinds == {"dir", "denied", "missing", "file"}

\* a directory entry is a real directory, a symbolic link to a directory
\* outside path, or a directory main may not list
DirKinds == {"real", "symlink", "denied"}

\* an entry that is no directory is a regular file, a FIFO nobody writes to
\* (open blocks, shutil.copyfile refuses it), or a device, or a symbolic link
\* to one, that gives nothing to read (a terminal: the read blocks)
FileKinds == {"regular", "fifo", "device"}

RECURSIVE AboveIn(_, _)
\* the directory entries f lies in when p gives each entry's directory
AboveIn(p, f) == IF p[f] = 0 THEN {} ELSE {p[f]} \cup AboveIn(p, p[f])

\* the ways the entries can lie in one another, the entries numbered in the
\* order a walk of the tree meets them (a directory before what it holds)
Parents ==
    {p \in [Files -> 0..NFiles] :
        /\ \A f \in Files : p[f] < f
        /\ \A f \in Files : p[f] # 0 => p[f] \in {f - 1} \cup AboveIn(p, f - 1)}

\* the directory entries f lies in
Above(f) == AboveIn(parent, f)

\* the ways the entries can be names of the same files (hard links): each
\* entry is mapped to the first entry naming its file
Links == {l \in [Files -> Files] : \A f \in Files : l[f] <= f /\ l[l[f]] = l[f]}

\* the file the name f leads to: a file under path, known by its first name,
\* or for a symbolic link into new_dir the file there
FileOf(f) == IF sym[f] = 0 THEN <<"path", link[f]>> ELSE <<"new_dir", sym[f]>>

\* f and g are names of one file
SameFile(f, g) == FileOf(f) = FileOf(g)

NoImage == [size |-> <<0, 0>>, exif |-> FALSE]

\* Matches comparing the lower-cased suffix
MatchesAnyCase(s) == s \in exts \/ s = ".JPG"

\* resize_images, line 46: file.suffix in exts
Matches(s) == s \in exts

Matched == {f \in Files : Matches(suffix[f])}

\* resize_images, line 46: the entries path.rglob("*") yields.  It yields
\* nothing when path is not a directory it can list, and it does not go into
\* a directory that is a symbolic link or that it cannot list.
Listed ==
    {f \in Files :
        /\ path_kind = "dir"
        /\ \A d \in Above(f) : tree[d].isdir /\ dir_kind[d] = "real"}

\* the orders path.rglob may list the entries of S in
Perms(S) ==
    {q \in [1..Cardinality(S) -> S] : \A i, j \in 1..Cardinality(S) : q[i] = q[j] => i = j}

\* Abort with the exception caught and the run going on
AbortCaught(exc) == pc' = (IF pc = "main" THEN "rglob" ELSE "loop") /\ error' = exc

\* an exception nobody catches ends the run
Abort(exc) == pc' = "error" /\ error' = exc

\* entry f is a link without target (a symbolic link into new_dir is one when
\* main starts), a second name of a file, a directory rglob does not walk, or
\* no regular file
Special(f) ==
    orig[f].missing \/ link[f] # f \/ dir_kind[f] # "real" \/ file_kind[f] # "regular"

ProgInit ==
    /\ in_place \in BOOLEAN
    /\ args_max_dim \in MaxDimArgs
    /\ path_kind \in PathKinds
    /\ new_dir_exists \in BOOLEAN
    \* nothing lies under a path that is absent or a file
    /\ orig \in IF path_kind \in {"missing", "file"}
                THEN {[f \in Files |-> Missing]}
                ELSE [Files -> Contents]
    /\ parent \in {p \in Parents : \A f \in Files : p[f] # 0 => orig[p[f]].isdir}
    /\ dir_kind \in {d \in [Files -> DirKinds] :
                        \A f \in Files : ~orig[f].isdir => d[f] = "real"}
    \* a FIFO or a device holds no bytes of an image
    /\ file_kind \in {k \in [Files -> FileKinds] :
                        \A f \in Files : k[f] # "regular" => orig[f] = Unreadable(0)}
    \* the names of one file lead to the same content
    /\ link \in {l \in Links :
                    \A f \in Files :
                        l[f] # f => /\ orig[f] = orig[l[f]]
                                    /\ ~orig[f].isdir /\ ~orig[f].missing
                                    /\ file_kind[f] = "regular"
                                    /\ file_kind[l[f]] = "regular"}
    \* new_dir is absent, so a symbolic link into it has no target yet
    /\ sym \in {s \in [Files -> 0..NFiles] :
                   \A f \in Files :
                       s[f] # 0 => /\ ~new_dir_exists
                                   /\ path_kind \in {"dir", "denied"}
                                   /\ orig[f] = Missing
                                   /\ ~orig[s[f]].isdir}
    \* the trees drawn hold at most one entry out of the ordinary: a link
    \* without target, a second name of a file, a directory not walked, a
    \* FIFO or device
    /\ path_kind \in {"dir", "denied"} =>
          \A f, g \in Files : Special(f) /\ Special(g) => f = g
    /\ suffix \in [Files -> Suffixes]
    /\ tree = orig
    /\ created = FALSE
    /\ backup = <<>>
    /\ copy_next = 1
    /\ copy_errors = {}
    /\ copied = FALSE
    /\ image_files = <<>>
    /\ idx = 1
    /\ image = NoImage
    /\ calls = <<>>
    /\ pc = "main"
    /\ error = "none"

\* MainInPlace without the test of args.in_place
MainNoCopy ==
    /\ pc = "main"
    /\ pc' = "rglob"
    /\ UNCHANGED <<given, tree, new_dir_exists,
                   created, backup, copy_next, copy_errors, copied, image_files,
                   idx, image, calls, error, sc_vars>>

\* main, line 100: --in-place given, no copy
MainInPlace ==
    /\ pc = "main"
    /\ in_place
    /\ pc' = "rglob"
    /\ UNCHANGED <<given, tree, new_dir_exists,
                   created, backup, copy_next, copy_errors, copied, image_files,
                   idx, image, calls, error, sc_vars>>

\* main, line 102: copytree lists path before it makes new_dir, and cannot
CopyTreeNoSource ==
    /\ pc = "main"
    /\ ~in_place
    /\ path_kind # "dir"
    /\ Abort(CASE path_kind = "denied" -> "PermissionError"
               [] path_kind = "missing" -> "FileNotFoundError"
               [] path_kind = "file" -> "NotADirectoryError")
    /\ UNCHANGED <<given, tree, new_dir_exists,
                   created, backup, copy_next, copy_errors, copied, image_files,
                   idx, image, calls, sc_vars>>

\* main, line 102: copytree finds new_dir present
CopyTreeExists ==
    /\ pc = "main"
    /\ ~in_place
    /\ path_kind = "dir"
    /\ new_dir_exists
    /\ Abort("FileExistsError")
    /\ UNCHANGED <<given, tree, new_dir_exists,
                   created, backup, copy_next, copy_errors, copied, image_files,
                   idx, image, calls, sc_vars>>

\* the exceptions os.makedirs raises when it cannot make new_dir: the parent
\* is not writable, or the file system is read-only or full
MkdirErrors == {"PermissionError", "OSError"}

\* the exceptions image.save raises before it has touched the file: opening
\* it for writing is refused, or fails otherwise (read-only file system)
SaveErrors == {"PermissionError", "OSError"}

\* main, line 102: copytree makes new_dir, or fails to (permission, space)
CopyTreeMkdir ==
    /\ pc = "main"
    /\ ~in_place
    /\ path_kind = "dir"
    /\ ~new_dir_exists
    /\ \/ /\ new_dir_exists' = TRUE
          /\ created' = TRUE
          /\ pc' = "copytree"
          /\ error' = error
       \/ /\ \E exc \in MkdirErrors : Abort(exc)
          /\ UNCHANGED <<new_dir_exists, created>>
    /\ UNCHANGED <<given, tree, backup, copy_next,
                   copy_errors, copied, image_files, idx, image, calls, sc_vars>>

\* what the names under path lead to when new_dir holds b: a symbolic link
\* into new_dir leads to the file there once that file is there
Seen(b) ==
    [f \in Files |->
        IF sym[f] = 0 THEN tree[f]
        ELSE IF sym[f] \in DOMAIN b THEN b[sym[f]] ELSE Missing]

\* new_dir after content c was written at the place of entry f
Put(f, c) == [g \in DOMAIN backup \cup {f} |-> IF g = f THEN c ELSE backup[g]]

\* copytree comes to one entry.  It copies it (following symbolic links), or
\* notes that it could not and goes on: a directory it cannot list, a link
\* without target and a FIFO cannot be copied, and a copy that fails while
\* writing (disk full) leaves a truncated file in new_dir.  It never comes
\* to what lies in a directory it did not copy.  The copy of a device that
\* gives nothing to read makes the empty file in new_dir and then stays in
\* the read: there is no step after it.
CopyFile ==
    /\ pc = "copytree"
    /\ copy_next \in Files
    /\ LET f == copy_next
           c == tree[copy_next]
       IN  IF Above(f) \ DOMAIN backup # {}
           THEN /\ backup' = backup /\ copy_errors' = copy_errors
                /\ copy_next' = copy_next + 1
           ELSE IF file_kind[f] = "device"
           THEN /\ f \notin DOMAIN backup
                /\ backup' = Put(f, Unreadable(0))
                /\ copy_errors' = copy_errors
                /\ copy_next' = copy_next
           ELSE \/ /\ ~c.missing
                   /\ c.isdir => dir_kind[f] # "denied"
                   /\ file_kind[f] = "regular"
                   /\ backup' = Put(f, c)
                   /\ copy_errors' = copy_errors
                   /\ copy_next' = copy_next + 1
                \/ /\ backup' = backup
                   /\ copy_errors' = copy_errors \cup {f}
                   /\ copy_next' = copy_next + 1
                \/ /\ ~c.missing /\ ~c.isdir
                   /\ file_kind[f] = "regular"
                   /\ backup' = Put(f, Truncated(c))
                   /\ copy_errors' = copy_errors \cup {f}
                   /\ copy_next' = copy_next + 1
    /\ tree' = Seen(backup')
    /\ UNCHANGED <<given, new_dir_exists,
                   created, copied, image_files, idx, image, calls, pc, error,
                   sc_vars>>

\* copytree returns, or raises shutil.Error with the failures it noted
CopyTreeEnd ==
    /\ pc = "copytree"
    /\ copy_next \notin Files
    /\ IF copy_errors = {}
       THEN copied' = TRUE /\ pc' = "rglob" /\ error' = error
       ELSE copied' = copied /\ Abort("Error")
    /\ UNCHANGED <<given, tree, new_dir_exists,
                   created, backup, copy_next, copy_errors, image_files, idx,
                   image, calls, sc_vars>>

\* resize_images, lines 45-54: the whole list is built before the loop
Rglob ==
    /\ pc = "rglob"
    /\ image_files' \in Perms(Listed \cap Matched)
    /\ idx' = 1
    /\ pc' = "loop"
    /\ UNCHANGED <<given, tree, new_dir_exists,
                   created, backup, copy_next, copy_errors, copied, image,
                   calls, error, sc_vars>>

\* LoopDone stopping one file early
LoopDoneEarly == idx >= Len(image_files)

\* resize_images, line 56: the list is exhausted
LoopDone == idx > Len(image_files)

\* resize_images, lines 56-57: the next file is handed to resize_image
LoopNext ==
    /\ pc = "loop"
    /\ ~LoopDone
    /\ calls' = Append(calls, image_files[idx])
    /\ pc' = "open"
    /\ UNCHANGED <<given, tree, new_dir_exists,
                   created, backup, copy_next, copy_errors, copied, image_files,
                   idx, image, error, sc_vars>>

\* resize_images returns and main ends
LoopEnd ==
    /\ pc = "loop"
    /\ LoopDone
    /\ pc' = "done"
    /\ UNCHANGED <<given, tree, new_dir_exists,
                   created, backup, copy_next, copy_errors, copied, image_files,
                   idx, image, calls, error, sc_vars>>

\* resize_image, line 19: Image.open opens the file, which fails for a link
\* without target, for a directory and for a file it may not read, and then
\* identifies the image.  On a FIFO or a device that gives nothing to read
\* it stays in the open or the read: there is no step after it.
Open ==
    /\ pc = "open"
    /\ LET f == image_files[idx]
           c == tree[image_files[idx]]
       IN  IF c.missing
           THEN /\ Abort("FileNotFoundError")
                /\ image' = image
           ELSE IF c.isdir
           THEN /\ Abort(IF dir_kind[f] = "denied" THEN "PermissionError"
                                                   ELSE "IsADirectoryError")
                /\ image' = image
           ELSE /\ file_kind[f] = "regular"
                /\ \/ /\ Abort("PermissionError")
                      /\ image' = image
                   \/ IF c.decodable
                      THEN /\ image' = [size |-> c.size, exif |-> c.exif]
                           /\ pc' = "exif"
                           /\ error' = error
                      ELSE /\ Abort("UnidentifiedImageError")
                           /\ image' = image
    /\ UNCHANGED <<given, tree, new_dir_exists,
                   created, backup, copy_next, copy_errors, copied, image_files,
                   idx, calls, sc_vars>>

\* ReadExif with image.info.get("exif"): no exception when it is missing
ReadExifOptional ==
    /\ pc = "exif"
    /\ pc' = "resize"
    /\ UNCHANGED <<given, tree, new_dir_exists,
                   created, backup, copy_next, copy_errors, copied, image_files,
                   idx, image, calls, error, sc_vars>>

\* resize_image, line 20: image.info["exif"]
ReadExif ==
    /\ pc = "exif"
    /\ IF image.exif
       THEN pc' = "resize" /\ error' = error
       ELSE Abort("KeyError")
    /\ UNCHANGED <<given, tree, new_dir_exists,
                   created, backup, copy_next, copy_errors, copied, image_files,
                   idx, image, calls, sc_vars>>

\* the sizes of the images main can find in a run and of what one resize
\* makes of them, where that is the size of an image
KnownSizes ==
    Sizes \cup {n \in {NewSize(s[1], s[2], m) : s \in Sizes, m \in MaxDimArgs} :
                    ValidSize(n)}

\* NewSize on those sizes, computed once: <<size, new_max_dim, new size>>
NewSizeOf ==
    {<<s, m, NewSize(s[1], s[2], m)>> : s \in KnownSizes, m \in MaxDimArgs}

\* resize_image, lines 21-27, in a run of main: NewSize, looked up where it
\* was computed before
NewSizeIn(width, height, new_max_dim) ==
    IF <<width, height>> \in KnownSizes /\ new_max_dim \in MaxDimArgs
    THEN (CHOOSE t \in NewSizeOf :
              t[1] = <<width, height>> /\ t[2] = new_max_dim)[3]
    ELSE NewSize(width, height, new_max_dim)

\* resize_image, lines 21-29
Resize ==
    /\ pc = "resize"
    /\ LET size == NewSizeIn(image.size[1], image.size[2], args_max_dim)
       IN  IF ValidSize(size)
           THEN /\ image' = [image EXCEPT !.size = size]
                /\ pc' = "save"
                /\ error' = error
           ELSE /\ Abort("ValueError")
                /\ image' = image
    /\ UNCHANGED <<given, tree, new_dir_exists,
                   created, backup, copy_next, copy_errors, copied, image_files,
                   idx, calls, sc_vars>>

\* what image.save leaves at the path of a file with content c
Saved(c, img) ==
    [missing |-> FALSE, isdir |-> FALSE, decodable |-> TRUE, exif |-> img.exif,
     size |-> img.size, saves |-> c.saves + 1]

\* the tree after the file named f got content c: every name of it shows c
Written(f, c) == [g \in Files |-> IF SameFile(g, f) THEN c ELSE tree[g]]

\* new_dir after the file named f got content c: f may be a symbolic link
\* to a file in new_dir
WrittenBackup(f, c) == IF sym[f] = 0 THEN backup ELSE [backup EXCEPT ![sym[f]] = c]

\* Save reaching the copy in new_dir as well
SaveAlsoBackup ==
    /\ pc = "save"
    /\ LET f == image_files[idx]
       IN  /\ tree' = Written(f, Saved(tree[f], image))
           /\ backup' = [g \in DOMAIN backup |->
                            IF g = f \/ g = sym[f] THEN Saved(tree[f], image)
                            ELSE backup[g]]
    /\ image' = NoImage
    /\ idx' = idx + 1
    /\ pc' = "loop"
    /\ UNCHANGED <<given, new_dir_exists, created,
                   copy_next, copy_errors, copied, image_files, calls, error,
                   sc_vars>>

\* resize_image, line 30: the file the name leads to is overwritten in place,
\* so under every name it has, and in new_dir when the name is a symbolic
\* link to a file there
Save ==
    /\ pc = "save"
    /\ LET f == image_files[idx]
       IN  /\ tree' = Written(f, Saved(tree[f], image))
           /\ backup' = WrittenBackup(f, Saved(tree[f], image))
    /\ image' = NoImage
    /\ idx' = idx + 1
    /\ pc' = "loop"
    /\ UNCHANGED <<given, new_dir_exists, created,
                   copy_next, copy_errors, copied, image_files, calls,
                   error, sc_vars>>

\* resize_image, line 30: image.save raises.  Either it could not open the
\* file for writing, which is then untouched, or the write failed after the
\* file was opened (disk full), which leaves it truncated: it is written in
\* place.
SaveFails ==
    /\ pc = "save"
    /\ LET f == image_files[idx]
       IN  \/ /\ tree' = tree /\ backup' = backup
              /\ \E exc \in SaveErrors : Abort(exc)
           \/ /\ tree' = Written(f, Truncated(tree[f]))
              /\ backup' = WrittenBackup(f, Truncated(tree[f]))
              /\ Abort("OSError")
    /\ UNCHANGED <<given, new_dir_exists, created,
                   copy_next, copy_errors, copied, image_files, idx,
                   image, calls, sc_vars>>

Init ==
    /\ ProgInit
    /\ sc_in = <<1, 1, 1>>
    /\ sc_out = <<>>

Next ==
    \/ MainInPlace
    \/ CopyTreeNoSource
    \/ CopyTreeExists
    \/ CopyTreeMkdir
    \/ CopyFile
    \/ CopyTreeEnd
    \/ Rglob
    \/ LoopNext
    \/ LoopEnd
    \/ Open
    \/ ReadExif
    \/ Resize
    \/ Save
    \/ SaveFails

Spec == Init /\ [][Next]_vars

\* the size computation alone, main not started
ScalerInit ==
    /\ sc_in \in (1..MaxDim) \X (1..MaxDim) \X ((-1)..MaxNewMaxDim)
    /\ sc_out = <<>>
    /\ in_place = TRUE
    /\ args_max_dim = DefaultMaxDim
    /\ path_kind = "dir"
    /\ suffix = [f \in Files |-> ".jpg"]
    /\ parent = [f \in Files |-> 0]
    /\ dir_kind = [f \in Files |-> "real"]
    /\ link = [f \in Files |-> f]
    /\ sym = [f \in Files |-> 0]
    /\ file_kind = [f \in Files |-> "regular"]
    /\ orig = [f \in Files |-> Unreadable(0)]
    /\ tree = orig
    /\ new_dir_exists = FALSE
    /\ created = FALSE
    /\ backup = <<>>
    /\ copy_next = 1
    /\ copy_errors = {}
    /\ copied = FALSE
    /\ image_files = <<>>
    /\ idx = 1
    /\ image = NoImage
    /\ calls = <<>>
    /\ pc = "main"
    /\ error = "none"

ScalerNext == ScalerFirst \/ ScalerAgain

ScalerSpec == ScalerInit /\ [][ScalerNext]_vars

(***************************************************************************)
(* Properties of the size computation (under ScalerSpec).                  *)
(***************************************************************************)

Applied == sc_out # <<>>

InW == sc_in[1]
InH == sc_in[2]
InM == sc_in[3]
OutW == sc_out[1][1]
OutH == sc_out[1][2]

\* C4: for positive w, h, m the size is <<floor(w*m/max), floor(h*m/max)>> and
\* its larger dimension is exactly m.
C4_ExactFloor ==
    Applied /\ InM > 0 =>
        /\ OutW = (InW * InM) \div Max(InW, InH)
        /\ OutH = (InH * InM) \div Max(InW, InH)
        /\ Max(OutW, OutH) = InM

\* new_w/(new_h + 1) <= w/h <= (new_w + 1)/new_h, cross-multiplied
WithinOnePixel == OutW * InH <= InW * (OutH + 1) /\ InW * OutH <= (OutW + 1) * InH

C6_Idempotent == Len(sc_out) >= 2 => sc_out[2] = sc_out[1]

\* C10 as stated: for positive w, h, m both new dimensions are at least 1.
C10_PositiveSize == Applied /\ InM > 0 => OutW >= 1 /\ OutH >= 1

\* C10 amended: for positive w, h, m no new dimension is negative; a
\* dimension d comes out 0 when d*m < max(w, h) and at least 1 when
\* d*m > max(w, h); for m <= 0 no new dimension is positive.
C10_ZeroOnlyWhenSmall ==
    Applied =>
        IF InM > 0
        THEN /\ OutW >= 0 /\ OutH >= 0
             /\ InW * InM > Max(InW, InH) => OutW >= 1
             /\ InH * InM > Max(InW, InH) => OutH >= 1
             /\ InW * InM < Max(InW, InH) => OutW = 0
             /\ InH * InM < Max(InW, InH) => OutH = 0
        ELSE OutW <= 0 /\ OutH <= 0

\* a positive m giving an empty image
C10_Witness == Applied /\ InM > 1 /\ OutW = 0 /\ OutH = InM

(***************************************************************************)
(* Properties of the run of main (under Spec).                             *)
(***************************************************************************)

Opened == {calls[i] : i \in 1..Len(calls)}

\* resize_images, line 46: the entries the list is made of
Collected == Listed \cap Matched

\* the content resize_image leaves for a file it found with content c
Resized(c) ==
    IF c.decodable
    THEN [missing |-> FALSE, isdir |-> FALSE, decodable |-> TRUE, exif |-> c.exif,
          size |-> NewSizeIn(c.size[1], c.size[2], args_max_dim),
          saves |-> c.saves + 1]
    ELSE c

RECURSIVE ResizedTimes(_, _)
\* the content n successive resizes leave
ResizedTimes(c, n) == IF n = 0 THEN c ELSE ResizedTimes(Resized(c), n - 1)

RECURSIVE CopyOf(_)
\* what copytree, having returned, put in new_dir for entry g: what g led to
CopyOf(g) == IF sym[g] = 0 THEN orig[g] ELSE CopyOf(sym[g])

\* what the name f led to when the resize phase started
Found(f) ==
    IF sym[f] = 0 THEN orig[f] ELSE IF copied THEN CopyOf(sym[f]) ELSE Missing

\* how many of the first k listed entries are names of the file x
SavesTo(x, k) == Cardinality({j \in 1..k : FileOf(image_files[j]) = x})

\* what g leads to after the first k listed files were resized
AfterSaves(g, k) == ResizedTimes(Found(g), SavesTo(FileOf(g), k))

\* the file of entry g in new_dir after the first k listed files were resized
BackupAfterSaves(g, k) == ResizedTimes(CopyOf(g), SavesTo(<<"new_dir", g>>, k))

InResizePhase == pc \in {"rglob", "loop", "open", "exif", "resize", "save", "done"}

\* the run ended in copytree
CopyFailed == pc = "error" /\ calls = <<>>

\* the run ended in a call of resize_image
ResizeFailed == pc = "error" /\ calls # <<>>

\* the exceptions that leave copytree: path cannot be listed, new_dir is
\* there or cannot be made, some entry could not be copied
CopyErrors ==
    {"PermissionError", "FileNotFoundError", "NotADirectoryError",
     "FileExistsError", "Error"} \cup MkdirErrors

\* the exceptions that leave resize_image
ResizeErrors ==
    {"FileNotFoundError", "IsADirectoryError", "PermissionError",
     "UnidentifiedImageError", "KeyError", "ValueError"} \cup SaveErrors

\* the run ended with the exception of a write that failed, which image.save
\* alone raises (line 30), before or after it opened the file for writing
WriteFailed == ResizeFailed /\ error = "OSError"

\* every file under path is as main found it
SourceAsFound == \A f \in Files : sym[f] = 0 => tree[f] = orig[f]

\* new_dir holds every file under path as main found it
BackupAsFound ==
    \A f \in Files : sym[f] = 0 => f \in DOMAIN backup /\ backup[f] = orig[f]

\* C1: without --in-place nothing under path is opened or overwritten until
\* copytree has returned; when copytree raises, the run is over with every
\* file as it was and no file resized.
C1_CopyBeforeResize ==
    /\ ~in_place /\ ~copied => SourceAsFound /\ calls = <<>> /\ ~InResizePhase
    /\ CopyFailed => ~in_place /\ ~copied /\ error \in CopyErrors
    /\ ResizeFailed => (in_place \/ copied) /\ error \in ResizeErrors

\* copytree failed on a file after copying another: the run is over
C1_Witness ==
    /\ ~in_place /\ pc = "error" /\ error = "Error"
    /\ DOMAIN backup # {} /\ Matched # {}

C3_MissingExifAborts ==
    /\ \A f \in Files : orig[f].decodable /\ ~orig[f].exif => tree[f] = orig[f]
    /\ \A g \in DOMAIN backup : backup[g].decodable /\ ~backup[g].exif => backup[g].saves = 0
    /\ pc \in {"resize", "save"} => image.exif
    /\ \A f \in Opened :
          tree[f].decodable /\ ~tree[f].exif =>
              /\ f = image_files[idx]
              /\ \/ pc \in {"open", "exif"}
                 \/ /\ pc = "error"
                    /\ error = (IF image = NoImage THEN "PermissionError" ELSE "KeyError")

\* the second file lacks exif, the first was resized
C3_Witness ==
    /\ error = "KeyError" /\ idx = 2
    /\ tree[image_files[1]].saves >= 1

\* C7 as stated: only entries whose suffix is exactly .png, .jpg or .jpeg
\* are opened or written; every other entry stays as it was.
C7_OnlyMatchedTouched ==
    \A f \in Files :
        suffix[f] \notin {".png", ".jpg", ".jpeg"} =>
            /\ f \notin Opened
            /\ \A i \in 1..Len(image_files) : image_files[i] # f
            /\ sym[f] = 0 => tree[f] = orig[f]

\* C7 amended: only entries whose suffix is exactly .png, .jpg or .jpeg are
\* listed and opened; every other entry stays as it was unless it is a name
\* (hard link) of the same file as such an entry.
C7_UnmatchedUnlinkedUntouched ==
    \A f \in Files :
        suffix[f] \notin {".png", ".jpg", ".jpeg"} =>
            /\ f \notin Opened
            /\ \A i \in 1..Len(image_files) : image_files[i] # f
            /\ sym[f] = 0
                 /\ (\A g \in Files : suffix[g] \in {".png", ".jpg", ".jpeg"} => ~SameFile(f, g))
                  => tree[f] = orig[f]

\* a run over a .JPG and a .jpg that resized the .jpg
C7_Witness ==
    /\ pc = "done"
    /\ \E f, g \in Files :
          suffix[f] = ".JPG" /\ suffix[g] = ".jpg" /\ tree[g] # orig[g]
                             /\ ~SameFile(f, g) /\ sym[g] = 0
                             /\ orig[f].decodable /\ orig[f].exif

\* C8 as stated: new_dir is made only without --in-place, and then before
\* the resize phase; the resize phase never writes to it, so at the end of a
\* successful run it holds every file as main found it, while the matched
\* files under path are resized.
C8_BackupKeepsOriginals ==
    /\ created => ~in_place
    /\ ~in_place /\ InResizePhase => created /\ copied
    /\ copied => BackupAsFound
    /\ pc = "done" =>
          /\ created <=> ~in_place
          /\ ~in_place => \A f \in Matched : tree[f].saves >= 1

\* C8 amended: new_dir is made only without --in-place, and then before the
\* resize phase; the resize phase never lists it, and writes to a file in it
\* only through a listed entry that is a symbolic link to that file.  So at
\* the end of a successful run it holds every entry as copytree found it,
\* but for the files such links lead to, which are resized; of the matched
\* entries under path those that rglob lists are resized (once for each
\* listed name of the file), the others are as they were.
C8_BackupUpToLinks ==
    /\ created => ~in_place
    /\ ~in_place /\ InResizePhase => created /\ copied
    /\ copied =>
          \A g \in Files :
              /\ g \in DOMAIN backup
              /\ (\A f \in Files : sym[f] # g) => backup[g] = CopyOf(g)
    /\ pc = "done" =>
          /\ created <=> ~in_place
          /\ ~in_place =>
                \A g \in Files : backup[g] = BackupAfterSaves(g, Len(image_files))
          /\ \A f \in Files : tree[f] = AfterSaves(f, Len(image_files))
          /\ \A f \in Collected : tree[f].saves >= 1

\* a successful run without --in-place that resized a file and kept its copy
C8_Witness ==
    /\ pc = "done" /\ ~in_place
    /\ \E f \in Files : sym[f] = 0 /\ tree[f].saves = 1 /\ backup[f] = orig[f]

\* the interpreter goes on to the next statement of main as long as there is
\* one; a library call that stays in a read has none
FairSpec == Spec /\ WF_vars(Next)

\* the collected list is complete and fixed from the loop on, the calls are
\* its files in list order, one at a time, and at the end of a run in which
\* none raised each listed file is resized, once for each listed name of it
InListOrder ==
    /\ pc \in {"loop", "open", "exif", "resize", "save", "done"} =>
          /\ Len(image_files) = Cardinality(Collected)
          /\ {image_files[i] : i \in 1..Len(image_files)} = Collected
    /\ calls = SubSeq(image_files, 1, Len(calls))
    /\ Len(calls) = (IF pc \in {"open", "exif", "resize", "save"} \/ ResizeFailed
                     THEN idx ELSE idx - 1)
    /\ pc = "done" =>
          /\ calls = image_files
          /\ \A f \in Collected :
                tree[f] = AfterSaves(f, Len(image_files)) /\ tree[f].saves >= 1

\* main is in a read that does not return: copytree in the copy of a device,
\* of which it has made the empty file, or Image.open on a FIFO or a device
Blocked ==
    \/ /\ pc = "copytree" /\ copy_next \in Files
       /\ file_kind[copy_next] = "device" /\ copy_next \in DOMAIN backup
    \/ /\ pc = "open"
       /\ file_kind[image_files[idx]] # "regular"

\* C9 as stated: the list of collected files is complete before the first
\* resize and is the list the loop walks; resize_image is called on its
\* files one at a time in list order; every run ends, and a run in which no
\* call raises ends after the last file, with each listed file resized.
C9_OncePerFileInOrder ==
    /\ []InListOrder
    /\ [][image_files' # image_files => pc = "rglob"]_vars
    /\ <>(pc = "done" \/ pc = "error")

\* C9 amended: the list of collected files is complete before the first
\* resize and is the list the loop walks; resize_image is called on its
\* files one at a time in list order; every run ends or comes to a read
\* that does not return (of a device in the copy, of a listed FIFO or device
\* in Image.open), where it stays with nothing changing any more; a run in
\* which no call raises and no read blocks ends after the last file, with
\* each listed file resized, once for each listed name of it.
C9_InOrderUnlessBlocked ==
    /\ []InListOrder
    /\ [][image_files' # image_files => pc = "rglob"]_vars
    /\ [][~Blocked]_vars
    /\ <>(pc = "done" \/ pc = "error" \/ Blocked)

\* a run that ended after resizing two files
C9_Witness == pc = "done" /\ Len(image_files) = 2 /\ Len(calls) = 2 /\ idx = 3
====
